---- MODULE Spec2Model ----
(***************************************************************************)
(* A model of the aquarium search application: the search/filter engine,   *)
(* the per-session reactive state of the rating buttons, and the ratings   *)
(* store (DuckDB/MotherDuck with the CSV backup file).                     *)
(*                                                                         *)
(* Text is modelled as sequences of one-character strings, so that         *)
(* lowercasing, regex search and identifier sanitisation are computed as   *)
(* the code computes them.                                                 *)
(***************************************************************************)
EXTENDS Integers, Sequences, FiniteSets, Bags, TLC

VARIABLES
    MOTHERDUCK_TOKEN,   \* TRUE iff the environment sets a MotherDuck token
    aquarium_data,      \* the dataset: a sequence of rows
    db,                 \* the two databases: [motherduck, local] -> table
    backup_file,        \* ratings_backup.csv: [exists, lines]
    clock,              \* datetime.now(), as a logical clock
    browsers,           \* the sessions whose browser connects in this run
    started,            \* session -> server() has been called for it
    search_query,       \* session -> input.search_query
    filtered,           \* session -> value of the filtered_data calc
    panels,             \* session -> which conditional panels are shown
    cards,              \* session -> last rendered search_results
    rated_animals,      \* session -> reactive value: animal name -> key
    ratings_trigger,    \* session -> reactive value counting rating updates
    button_observers,   \* session -> button id -> observer closure
    input_buttons,      \* session -> button id -> action button value
    pending,            \* session -> invalidated rating handlers to re-run
    notification,       \* session -> last notification shown
    summary,            \* session -> last rendered ratings_summary data
    summary_stale,      \* session -> ratings_summary is invalidated
    ret                 \* return value of the last store operation

vars == << MOTHERDUCK_TOKEN, aquarium_data, db, backup_file, clock, browsers,
           started,
           search_query, filtered, panels, cards, rated_animals,
           ratings_trigger, button_observers, input_buttons, pending,
           notification, summary, summary_stale, ret >>

storeVars == << MOTHERDUCK_TOKEN, db, backup_file, clock, ret >>

sessionVars == << started, search_query, filtered, panels, cards,
                  rated_animals, ratings_trigger, button_observers,
                  input_buttons, pending, notification, summary,
                  summary_stale >>

(***************************************************************************)
(* Bounds of the model.                                                    *)
(***************************************************************************)
NumSessions == 2        \* browser sessions the process can serve
MaxClicks == 1          \* cap on the value of one action button
MaxRows == 2            \* rows of a dataset drawn for the filter check
MaxFieldLen == 1        \* length of a field value drawn for the filter check
MaxQueryLen == 2        \* length of a query drawn for the filter check
NumStoreAnimals == 11   \* animals with votes in a table drawn for the store
MaxNope == 1            \* animals with a "Not my type" vote in such a table
MaxOps == 2             \* store calls in one run of init, save and summarize
MaxNameLen == 4         \* length of an animal name drawn for the identifier check
MaxCalls == 3           \* store calls in one run of the store on its own

Sessions == 1..NumSessions

(***************************************************************************)
(* Text.                                                                   *)
(***************************************************************************)
UpperCase == << "A", "B", "C", "D", "E", "F", "G", "H", "I", "J", "K", "L", "M",
                "N", "O", "P", "Q", "R", "S", "T", "U", "V", "W", "X", "Y", "Z" >>
LowerCase == << "a", "b", "c", "d", "e", "f", "g", "h", "i", "j", "k", "l", "m",
                "n", "o", "p", "q", "r", "s", "t", "u", "v", "w", "x", "y", "z" >>
Digits == { "0", "1", "2", "3", "4", "5", "6", "7", "8", "9" }

Range(f) == { f[i] : i \in DOMAIN f }

\* pandas NaN: a missing value of a text column
Null == << "NaN" >>
isna(v) == v = Null

\* str.lower() on one character
LowerOf ==
    [ c \in Range(UpperCase) |-> LowerCase[CHOOSE i \in 1..26 : UpperCase[i] = c] ]
lower_char(c) == IF c \in DOMAIN LowerOf THEN LowerOf[c] ELSE c

\* str.lower(); Series.str.lower() keeps NaN as NaN
str_lower(s) == IF isna(s) THEN Null ELSE [i \in 1..Len(s) |-> lower_char(s[i])]

\* the plain substring relation
IsSubstring(p, t) ==
    \E i \in 0..(Len(t) - Len(p)) : \A j \in 1..Len(p) : t[i + j] = p[j]

\* re.search(pat, t) for patterns over letters, digits, space, "-", "'"
\* (literals) and "." (any character except a newline)
re_search(pat, t) ==
    \E i \in 0..(Len(t) - Len(pat)) :
        \A j \in 1..Len(pat) : pat[j] = "." \/ t[i + j] = pat[j]

\* Series.str.contains(pat, na=False): regex=True is the default
str_contains(v, pat) == IF isna(v) THEN FALSE ELSE re_search(pat, v)

(***************************************************************************)
(* Search/filter engine.                                                   *)
(***************************************************************************)
SearchColumns == { "name", "scientific_name", "diet", "habitat", "range",
                   "physical_characteristics", "fun_fact",
                   "conservation_status" }

\* one row of the boolean mask of filtered_data
row_mask(row, query_lower) ==
    \/ str_contains(str_lower(row["name"]), query_lower)
    \/ str_contains(str_lower(row["scientific_name"]), query_lower)
    \/ str_contains(str_lower(row["diet"]), query_lower)
    \/ str_contains(str_lower(row["habitat"]), query_lower)
    \/ str_contains(str_lower(row["range"]), query_lower)
    \/ str_contains(str_lower(row["physical_characteristics"]), query_lower)
    \/ str_contains(str_lower(row["fun_fact"]), query_lower)
    \/ str_contains(str_lower(row["conservation_status"]), query_lower)

\* D[mask]: the indices of the selected rows, in dataset order
RECURSIVE SelectIdx(_, _, _)
SelectIdx(D, q, i) ==
    IF i > Len(D) THEN << >>
    ELSE (IF row_mask(D[i], q) THEN << i >> ELSE << >>) \o SelectIdx(D, q, i + 1)

filtered_data_MatchAll(D, query) ==
    IF query = << >> THEN [i \in 1..Len(D) |-> i]
    ELSE SelectIdx(D, str_lower(query), 1)
\* filtered_data(): the index labels of the rows of the result
filtered_data(D, query) ==
    IF query = << >> THEN << >>
    ELSE SelectIdx(D, str_lower(query), 1)

\* the conditions of the two ui.panel_conditional
panel_conditional(query) ==
    [ landing |-> (query = << >>), results |-> (query # << >>) ]

(***************************************************************************)
(* Identifiers of the rating buttons.                                      *)
(***************************************************************************)
Alnum == Range(UpperCase) \cup Range(LowerCase) \cup Digits
IsAlnum(c) == c \in Alnum

\* re.sub(r'[^a-zA-Z0-9]', '_', name)
ReplaceNonAlnum(name) ==
    [i \in 1..Len(name) |-> IF IsAlnum(name[i]) THEN name[i] ELSE "_"]

CollapseUnderscores_Keep(s) == s
\* re.sub(r'_+', '_', s)
RECURSIVE CollapseUnderscores(_)
CollapseUnderscores(s) ==
    IF Len(s) <= 1 THEN s
    ELSE IF s[1] = "_" /\ s[2] = "_" THEN CollapseUnderscores(Tail(s))
    ELSE << s[1] >> \o CollapseUnderscores(Tail(s))

\* s.strip('_')
RECURSIVE StripLeft(_)
StripLeft(s) ==
    IF s # << >> /\ s[1] = "_" THEN StripLeft(Tail(s)) ELSE s
RECURSIVE StripRight(_)
StripRight(s) ==
    IF s # << >> /\ s[Len(s)] = "_"
    THEN StripRight(SubSeq(s, 1, Len(s) - 1)) ELSE s
Strip(s) == StripRight(StripLeft(s))

sanitize_id(name) == Strip(CollapseUnderscores(ReplaceNonAlnum(name)))

love_button_id(name) == << "l", "o", "v", "e", "_" >> \o sanitize_id(name)
nope_button_id(name) == << "n", "o", "p", "e", "_" >> \o sanitize_id(name)

(***************************************************************************)
(* The dataset.                                                            *)
(***************************************************************************)
Row(name, scientific_name, diet, habitat, rng, physical, fun_fact, status) ==
    [ name |-> name, scientific_name |-> scientific_name, diet |-> diet,
      habitat |-> habitat, range |-> rng,
      physical_characteristics |-> physical, fun_fact |-> fun_fact,
      conservation_status |-> status ]

\* the fallback dataset used when aquarium.csv is missing
SampleData ==
    << Row(<< "S", "a", "m", "p", "l", "e", " ", "F", "i", "s", "h" >>,
           << "F", "i", "s", "h", "u", "s", " ", "s", "a", "m", "p", "l", "e", "u", "s" >>,
           << "O", "m", "n", "i", "v", "o", "r", "e" >>,
           << "O", "c", "e", "a", "n" >>,
           << "G", "l", "o", "b", "a", "l" >>,
           << "C", "o", "l", "o", "r", "f", "u", "l" >>,
           << "V", "e", "r", "y", " ", "c", "o", "l", "o", "r", "f", "u", "l" >>,
           << "S", "t", "a", "b", "l", "e" >>),
       Row(<< "S", "a", "m", "p", "l", "e", " ", "S", "h", "a", "r", "k" >>,
           << "S", "h", "a", "r", "k", "u", "s", " ", "s", "a", "m", "p", "l", "e", "u", "s" >>,
           << "C", "a", "r", "n", "i", "v", "o", "r", "e" >>,
           << "D", "e", "e", "p", " ", "S", "e", "a" >>,
           << "P", "a", "c", "i", "f", "i", "c" >>,
           << "L", "a", "r", "g", "e", " ", "t", "e", "e", "t", "h" >>,
           << "A", "p", "e", "x", " ", "p", "r", "e", "d", "a", "t", "o", "r" >>,
           << "V", "u", "l", "n", "e", "r", "a", "b", "l", "e" >>),
       Row(<< "S", "a", "m", "p", "l", "e", " ", "T", "u", "r", "t", "l", "e" >>,
           << "T", "u", "r", "t", "l", "e", "u", "s", " ", "s", "a", "m", "p", "l", "e", "u", "s" >>,
           << "H", "e", "r", "b", "i", "v", "o", "r", "e" >>,
           << "C", "o", "a", "s", "t", "a", "l" >>,
           << "A", "t", "l", "a", "n", "t", "i", "c" >>,
           << "H", "a", "r", "d", " ", "s", "h", "e", "l", "l" >>,
           << "L", "o", "n", "g", " ", "l", "i", "v", "e", "d" >>,
           << "E", "n", "d", "a", "n", "g", "e", "r", "e", "d" >>) >>

\* a dataset as read from aquarium.csv: two names that differ only in a
\* non-alphanumeric character, a name with an apostrophe, missing fields
SeaEel == << "S", "e", "a", " ", "E", "e", "l" >>
SeaEelHyphen == << "S", "e", "a", "-", "E", "e", "l" >>
RaysCod == << "R", "a", "y", "'", "s", " ", "C", "o", "d" >>
CsvData ==
    << Row(SeaEel, Null, Null, << "R", "e", "e", "f" >>, Null, Null, Null, Null),
       Row(SeaEelHyphen, Null, Null, Null, Null, Null, Null, Null),
       Row(RaysCod, Null, Null, << "R", "e", "e", "f" >>, Null, Null, Null, Null) >>

featured_animal_names ==
    { << "S", "e", "a", " ", "O", "t", "t", "e", "r" >>,
      << "B", "e", "l", "u", "g", "a", " ", "W", "h", "a", "l", "e" >>,
      << "P", "e", "n", "g", "u", "i", "n" >>,
      << "S", "e", "a", "h", "o", "r", "s", "e" >>,
      << "S", "e", "a", " ", "T", "u", "r", "t", "l", "e" >>,
      << "O", "c", "t", "o", "p", "u", "s" >>,
      << "J", "e", "l", "l", "y", "f", "i", "s", "h" >>,
      << "S", "h", "a", "r", "k" >> }

FeaturedCount == 8

\* the names on the featured cards: the rows whose name is in the list, or
\* the first 8 rows when fewer than 8 of them are in the dataset
featured_animals_df(D) ==
    LET isin == { i \in 1..Len(D) : D[i]["name"] \in featured_animal_names }
    IN  IF Cardinality(isin) < FeaturedCount
        THEN { i \in 1..Len(D) : i <= FeaturedCount }
        ELSE isin

\* the queries a visitor types into the search box
TypedQueries ==
    { << "s", "e", "a" >>, << "R", "E", "E", "F" >> }

(***************************************************************************)
(* The ratings store.                                                      *)
(*                                                                         *)
(* A table is [exists, index, rows]; rows is a bag of                      *)
(* [session_id, animal_name, rating]: the id and the timestamp of a row    *)
(* are defaults the database generates, so rows that agree on the three    *)
(* inserted columns are copies in the bag.                                 *)
(*                                                                         *)
(* Every store operation runs in an environment env that says how the      *)
(* outside world answers this one call:                                    *)
(*   md_ok     the MotherDuck connection can be opened                     *)
(*   local_ok  the local database file can be opened                       *)
(*   fail_at   the number of the conn.execute call that raises (0: none)   *)
(*   file_ok   the backup CSV can be written                               *)
(***************************************************************************)
LOVE == "Literally in love"
NOPE == "Not my type"
RatingValues == { LOVE, NOPE }

LIMIT == 10
MaxExecutes == 3

Envs == [ md_ok : BOOLEAN, local_ok : BOOLEAN, fail_at : 0..MaxExecutes,
          file_ok : BOOLEAN ]
\* the environments that differ for a call of each operation
InitEnvs == { e \in Envs : e.fail_at <= 1 /\ e.file_ok }
SaveEnvs == { e \in Envs : e.fail_at <= 1 }
SummaryEnvs == { e \in Envs : e.file_ok }

NoTable == [ exists |-> FALSE, index |-> FALSE, rows |-> EmptyBag ]
EmptyTable == [ exists |-> TRUE, index |-> TRUE, rows |-> EmptyBag ]
NoFile == [ exists |-> FALSE, lines |-> << >> ]

get_duckdb_connection_AlwaysLocal(token, env) ==
    IF env.local_ok THEN "local" ELSE "fail"
\* get_duckdb_connection(): the database the connection is to, or "fail"
\* when duckdb.connect raises out of the function
get_duckdb_connection(token, env) ==
    IF token /\ env.md_ok THEN "motherduck"
    ELSE IF env.local_ok THEN "local"
    ELSE "fail"

initialize_ratings_table_Recreate(d, token, env) ==
    LET conn == get_duckdb_connection(token, env) IN
    IF conn = "fail" \/ env.fail_at = 1 THEN [ db |-> d, ret |-> FALSE ]
    ELSE [ db |-> [ d EXCEPT ![conn] = EmptyTable ], ret |-> env.fail_at # 2 ]
\* initialize_ratings_table(): the databases afterwards and the return value
initialize_ratings_table(d, token, env) ==
    LET conn == get_duckdb_connection(token, env) IN
    IF conn = "fail" \/ env.fail_at = 1 THEN [ db |-> d, ret |-> FALSE ]
    ELSE LET created == [ d[conn] EXCEPT !.exists = TRUE ] IN
         IF env.fail_at = 2
         THEN [ db |-> [ d EXCEPT ![conn] = created ], ret |-> FALSE ]
         ELSE [ db |-> [ d EXCEPT ![conn] = [ created EXCEPT !.index = TRUE ] ],
                ret |-> TRUE ]

RatingRow(session_id, animal_name, rating) ==
    [ session_id |-> session_id, animal_name |-> animal_name, rating |-> rating ]

save_rating_to_duckdb_Replace(d, token, env, row) ==
    LET conn == get_duckdb_connection(token, env) IN
    IF conn = "fail" \/ ~d[conn].exists \/ env.fail_at = 1
    THEN [ db |-> d, ret |-> FALSE ]
    ELSE [ db |-> [ d EXCEPT ![conn].rows = SetToBag({row}) ], ret |-> TRUE ]
save_rating_to_duckdb_Twice(d, token, env, row) ==
    LET conn == get_duckdb_connection(token, env) IN
    IF conn = "fail" \/ ~d[conn].exists \/ env.fail_at = 1
    THEN [ db |-> d, ret |-> FALSE ]
    ELSE [ db |-> [ d EXCEPT ![conn].rows = @ (+) SetToBag({row}) (+) SetToBag({row}) ],
           ret |-> TRUE ]
\* save_rating_to_duckdb(): the databases afterwards and the return value
save_rating_to_duckdb(d, token, env, row) ==
    LET conn == get_duckdb_connection(token, env) IN
    IF conn = "fail" \/ ~d[conn].exists \/ env.fail_at = 1
    THEN [ db |-> d, ret |-> FALSE ]
    ELSE [ db |-> [ d EXCEPT ![conn].rows = @ (+) SetToBag({row}) ],
           ret |-> TRUE ]

RECURSIVE SumCopies(_, _)
SumCopies(B, S) ==
    IF S = {} THEN 0
    ELSE LET r == CHOOSE x \in S : TRUE
         IN  CopiesIn(r, B) + SumCopies(B, S \ {r})

\* SELECT COUNT(*) FROM ratings WHERE animal_name = a AND rating = v
VoteCount(rows, a, v) ==
    SumCopies(rows, { r \in BagToSet(rows) : r.animal_name = a /\ r.rating = v })

\* the animals of GROUP BY animal_name within one rating value
VotedAnimals(rows, v) ==
    { r.animal_name : r \in { x \in BagToSet(rows) : x.rating = v } }

SetMax_Min(S) == CHOOSE m \in S : \A x \in S : m <= x
\* the largest count of the groups left: ORDER BY n DESC
SetMax(S) == CHOOSE m \in S : \A x \in S : x <= m

\* ORDER BY n DESC LIMIT k over the groups S: every order the database may
\* return, ties in any order
RECURSIVE TopLists(_, _, _, _)
TopLists(rows, v, S, k) ==
    IF k = 0 \/ S = {} THEN { << >> }
    ELSE LET m == SetMax({ VoteCount(rows, a, v) : a \in S })
             top == { a \in S : VoteCount(rows, a, v) = m }
         IN  UNION { { << [ animal_name |-> a, n |-> m ] >> \o rest :
                         rest \in TopLists(rows, v, S \ {a}, k - 1) } : a \in top }

None == [ none |-> TRUE, love |-> << >>, nope |-> << >> ]

get_ratings_summary_EmptyLists(d, token, env) ==
    LET conn == get_duckdb_connection(token, env) IN
    IF conn = "fail" THEN { None }
    ELSE IF ~d[conn].exists \/ env.fail_at = 1 THEN { None }
    ELSE IF env.fail_at \in { 2, 3 } THEN { None }
    ELSE { [ none |-> FALSE, love |-> l, nope |-> n ] :
             l \in TopLists(d[conn].rows, LOVE, VotedAnimals(d[conn].rows, LOVE), LIMIT),
             n \in TopLists(d[conn].rows, NOPE, VotedAnimals(d[conn].rows, NOPE), LIMIT) }
\* get_ratings_summary(): the set of values the call may return
get_ratings_summary(d, token, env) ==
    LET conn == get_duckdb_connection(token, env) IN
    IF conn = "fail" THEN { None }
    ELSE IF ~d[conn].exists \/ env.fail_at = 1 THEN { None }
    ELSE IF BagCardinality(d[conn].rows) = 0 THEN { None }
    ELSE IF env.fail_at \in { 2, 3 } THEN { None }
    ELSE { [ none |-> FALSE, love |-> l, nope |-> n ] :
             l \in TopLists(d[conn].rows, LOVE, VotedAnimals(d[conn].rows, LOVE), LIMIT),
             n \in TopLists(d[conn].rows, NOPE, VotedAnimals(d[conn].rows, NOPE), LIMIT) }

\* a line of the backup CSV: the header line, or the cells of a data line
BackupHeader ==
    [ header |-> TRUE,
      cells |-> << "timestamp", "session_id", "animal_name", "rating" >> ]
BackupLine(now, session_id, animal_name, rating) ==
    [ header |-> FALSE, cells |-> << now, session_id, animal_name, rating >> ]

\* the fallback branch of save_rating: DataFrame.to_csv on the backup file
append_backup_AlwaysHeader(f, line) ==
    [ exists |-> TRUE, lines |-> f.lines \o << BackupHeader, line >> ]
append_backup(f, line) ==
    IF ~f.exists
    THEN [ exists |-> TRUE, lines |-> << BackupHeader, line >> ]
    ELSE [ exists |-> TRUE, lines |-> Append(f.lines, line) ]

save_rating_BothSinks(d, f, now, token, env, animal_name, rating, session_id) ==
    LET saved == save_rating_to_duckdb(d, token, env,
                     RatingRow(session_id, animal_name, rating)) IN
    IF env.file_ok
    THEN [ db |-> saved.db,
           file |-> append_backup(f, BackupLine(now, session_id, animal_name, rating)),
           sink |-> IF saved.ret THEN "duckdb" ELSE "csv", raised |-> FALSE ]
    ELSE [ db |-> saved.db, file |-> f,
           sink |-> IF saved.ret THEN "duckdb" ELSE "none", raised |-> ~saved.ret ]
save_rating_NoFallback(d, f, now, token, env, animal_name, rating, session_id) ==
    LET saved == save_rating_to_duckdb(d, token, env,
                     RatingRow(session_id, animal_name, rating)) IN
    IF saved.ret
    THEN [ db |-> saved.db, file |-> f, sink |-> "duckdb", raised |-> FALSE ]
    ELSE [ db |-> saved.db, file |-> f, sink |-> "none", raised |-> TRUE ]
\* save_rating(): the store afterwards, which sink took the event, and
\* whether the call raised (the insert failed and so did the CSV write)
save_rating(d, f, now, token, env, animal_name, rating, session_id) ==
    LET saved == save_rating_to_duckdb(d, token, env,
                     RatingRow(session_id, animal_name, rating)) IN
    IF saved.ret
    THEN [ db |-> saved.db, file |-> f, sink |-> "duckdb", raised |-> FALSE ]
    ELSE IF env.file_ok
    THEN [ db |-> saved.db,
           file |-> append_backup(f, BackupLine(now, session_id, animal_name, rating)),
           sink |-> "csv", raised |-> FALSE ]
    ELSE [ db |-> saved.db, file |-> f, sink |-> "none", raised |-> TRUE ]

(***************************************************************************)
(* The session: server(input, output, session).                            *)
(***************************************************************************)
EmptyMap == << >>

NoNotification == [ kind |-> "none", animal_name |-> << >> ]

\* the value the onclick script of a featured card or a summary entry passes
\* to Shiny.setInputValue: the name is pasted between single quotes, so a
\* name with an odd number of apostrophes leaves a string unterminated and
\* the script does not run; the names modelled hold at most one apostrophe
JsNotRun == << "SyntaxError" >>
ApostropheCount(name) == Cardinality({ i \in 1..Len(name) : name[i] = "'" })
onclick_value(name) ==
    IF ApostropheCount(name) = 0 THEN name ELSE JsNotRun

\* the observers search_results creates for the rows it shows, the first
\* row with a button id owning it
RECURSIVE create_rating_observers(_, _, _)
create_rating_observers(D, idxs, obs) ==
    IF idxs = << >> THEN obs
    ELSE LET name == D[Head(idxs)]["name"]
             lid == love_button_id(name)
             nid == nope_button_id(name)
             o1 == IF lid \in DOMAIN obs THEN obs
                   ELSE obs @@ (lid :> [ animal_name |-> name,
                                         rating_type |-> LOVE,
                                         rating_key |-> "love" ])
             o2 == IF nid \in DOMAIN o1 THEN o1
                   ELSE o1 @@ (nid :> [ animal_name |-> name,
                                        rating_type |-> NOPE,
                                        rating_key |-> "nope" ])
         IN  create_rating_observers(D, Tail(idxs), o2)

search_results_cards_AlwaysButtons(D, idxs, rated) ==
    [ k \in 1..Len(idxs) |->
        LET name == D[idxs[k]]["name"] IN
        [ name |-> name,
          love_id |-> love_button_id(name),
          nope_id |-> nope_button_id(name),
          state |-> "buttons" ] ]
\* the cards search_results returns: buttons, or the thank-you message
search_results_cards(D, idxs, rated) ==
    [ k \in 1..Len(idxs) |->
        LET name == D[idxs[k]]["name"] IN
        [ name |-> name,
          love_id |-> love_button_id(name),
          nope_id |-> nope_button_id(name),
          state |-> IF name \in DOMAIN rated THEN rated[name] ELSE "buttons" ] ]

\* the ids of the action buttons a rendering puts on the page
ShownButtons(cs) ==
    UNION { { cs[k].love_id, cs[k].nope_id } :
              k \in { j \in 1..Len(cs) : cs[j].state = "buttons" } }

\* a rendered action button is bound anew by the client and reports 0
rebind_buttons(inputs, cs) ==
    [ id \in DOMAIN inputs \cup ShownButtons(cs) |->
        IF id \in ShownButtons(cs) THEN 0 ELSE inputs[id] ]

\* the handlers that depend on rated_animals and would still save: their
\* button value is positive and their animal is not rated
StuckHandlers(obs, inputs, rated) ==
    { id \in DOMAIN obs :
        /\ id \in DOMAIN inputs
        /\ inputs[id] > 0
        /\ obs[id].animal_name \notin DOMAIN rated }

Quiet == \A s \in Sessions : pending[s] = {}

\* search_results(): re-render the cards of session s
RenderResults(s, D, idxs, rated, inputs) ==
    \E cs \in { search_results_cards(D, idxs, rated) } :
    /\ button_observers' =
         [ button_observers EXCEPT ![s] = create_rating_observers(D, idxs, @) ]
    /\ cards' = [ cards EXCEPT ![s] = cs ]
    /\ input_buttons' = [ input_buttons EXCEPT ![s] = rebind_buttons(inputs, cs) ]

\* ratings_summary(): re-render the leaderboard of session s
RenderSummary(s, d) ==
    \E env \in SummaryEnvs : \E sm \in get_ratings_summary(d, MOTHERDUCK_TOKEN, env) :
        /\ summary' = [ summary EXCEPT ![s] = sm ]
        /\ summary_stale' = [ summary_stale EXCEPT ![s] = FALSE ]

\* input.search_query of session s becomes q: the calc, the panels and the
\* visible outputs follow
ChangeQuery(s, q) ==
    IF q = search_query[s] THEN UNCHANGED vars
    ELSE
    \E idxs \in { filtered_data(aquarium_data, q) } :
    /\ search_query' = [ search_query EXCEPT ![s] = q ]
    /\ filtered' = [ filtered EXCEPT ![s] = idxs ]
    /\ panels' = [ panels EXCEPT ![s] = panel_conditional(q) ]
    /\ IF q # << >>
       THEN /\ RenderResults(s, aquarium_data, idxs,
                             rated_animals[s], input_buttons[s])
            /\ UNCHANGED << summary, summary_stale >>
       ELSE /\ UNCHANGED << button_observers, cards, input_buttons >>
            /\ IF summary_stale[s] THEN RenderSummary(s, db)
               ELSE UNCHANGED << summary, summary_stale >>
    /\ UNCHANGED << MOTHERDUCK_TOKEN, aquarium_data, db, backup_file, clock,
                    browsers, started, rated_animals, ratings_trigger, pending,
                    notification, ret >>

\* server(): a browser connects
StartSession(s) ==
    /\ s \in browsers
    /\ ~started[s]
    /\ Quiet
    /\ started' = [ started EXCEPT ![s] = TRUE ]
    /\ filtered' = [ filtered EXCEPT ![s] = filtered_data(aquarium_data, << >>) ]
    /\ panels' = [ panels EXCEPT ![s] = panel_conditional(<< >>) ]
    /\ RenderSummary(s, db)
    /\ UNCHANGED << MOTHERDUCK_TOKEN, aquarium_data, db, backup_file, clock,
                    browsers, search_query, cards, rated_animals,
                    ratings_trigger, button_observers, input_buttons, pending,
                    notification, ret >>

\* the visitor edits the search box
TypeQuery(s, q) ==
    /\ started[s]
    /\ Quiet
    /\ q # search_query[s]
    /\ ChangeQuery(s, q)

\* the effect on input.featured_animal_click
featured_animal_click(s, value) ==
    IF value = JsNotRun \/ value = << >> THEN UNCHANGED vars
    ELSE ChangeQuery(s, value)

FeaturedNames ==
    { aquarium_data[i]["name"] : i \in featured_animals_df(aquarium_data) }

SummaryNames(s) ==
    { summary[s].love[i].animal_name : i \in 1..Len(summary[s].love) }
    \cup { summary[s].nope[i].animal_name : i \in 1..Len(summary[s].nope) }

\* the visitor clicks a featured card
ClickFeatured(s, n) ==
    /\ started[s]
    /\ Quiet
    /\ panels[s].landing
    /\ n \in FeaturedNames
    /\ featured_animal_click(s, onclick_value(n))

\* the visitor clicks an entry of the leaderboard
ClickSummaryEntry(s, n) ==
    /\ started[s]
    /\ Quiet
    /\ panels[s].landing
    /\ n \in SummaryNames(s)
    /\ featured_animal_click(s, onclick_value(n))

\* the visitor clicks "Clear search"
ClearSearch(s) ==
    /\ started[s]
    /\ Quiet
    /\ panels[s].results
    /\ ChangeQuery(s, << >>)

(***************************************************************************)
(* The rating buttons.                                                     *)
(***************************************************************************)
Notification(rating_key, animal_name) ==
    [ kind |-> rating_key, animal_name |-> animal_name ]

rating_handler_GlobalRated(s, id, value, env) ==
    LET obs == button_observers[s][id]
        saved == save_rating(db, backup_file, clock, MOTHERDUCK_TOKEN, env,
                             obs.animal_name, obs.rating_type, s)
    IN  IF ~(value > 0) \/ saved.raised
           \/ \E o \in Sessions : obs.animal_name \in DOMAIN rated_animals[o]
        THEN [ changed |-> FALSE, db |-> db, file |-> backup_file,
               sink |-> "none", rated |-> rated_animals[s],
               trigger |-> ratings_trigger[s], notification |-> notification[s] ]
        ELSE [ changed |-> TRUE, db |-> saved.db, file |-> saved.file,
               sink |-> saved.sink,
               rated |-> (obs.animal_name :> obs.rating_key) @@ rated_animals[s],
               trigger |-> ratings_trigger[s] + 1,
               notification |-> Notification(obs.rating_key, obs.animal_name) ]
rating_handler_RateOnRaise(s, id, value, env) ==
    LET obs == button_observers[s][id]
        saved == save_rating(db, backup_file, clock, MOTHERDUCK_TOKEN, env,
                             obs.animal_name, obs.rating_type, s)
    IN  IF ~(value > 0) \/ obs.animal_name \in DOMAIN rated_animals[s]
        THEN [ changed |-> FALSE, db |-> db, file |-> backup_file,
               sink |-> "none", rated |-> rated_animals[s],
               trigger |-> ratings_trigger[s], notification |-> notification[s] ]
        ELSE [ changed |-> TRUE, db |-> saved.db, file |-> saved.file,
               sink |-> saved.sink,
               rated |-> (obs.animal_name :> obs.rating_key) @@ rated_animals[s],
               trigger |-> ratings_trigger[s] + 1,
               notification |-> Notification(obs.rating_key, obs.animal_name) ]
rating_handler_NoGuard(s, id, value, env) ==
    LET obs == button_observers[s][id]
        saved == save_rating(db, backup_file, clock, MOTHERDUCK_TOKEN, env,
                             obs.animal_name, obs.rating_type, s)
    IN  [ changed |-> TRUE, db |-> saved.db, file |-> saved.file,
          sink |-> saved.sink,
          rated |-> (obs.animal_name :> obs.rating_key) @@ rated_animals[s],
          trigger |-> ratings_trigger[s] + 1,
          notification |-> Notification(obs.rating_key, obs.animal_name) ]
\* rating_handler() of the observer of button id in session s, run with the
\* button at value: what it leaves behind
rating_handler(s, id, value, env) ==
    LET obs == button_observers[s][id]
        unchanged == [ changed |-> FALSE, db |-> db, file |-> backup_file,
                       sink |-> "none",
                       rated |-> rated_animals[s],
                       trigger |-> ratings_trigger[s],
                       notification |-> notification[s] ]
    IN  IF ~(value > 0) \/ obs.animal_name \in DOMAIN rated_animals[s]
        THEN unchanged
        ELSE LET saved == save_rating(db, backup_file, clock, MOTHERDUCK_TOKEN,
                                      env, obs.animal_name, obs.rating_type, s)
             IN  IF saved.raised
                 THEN [ unchanged EXCEPT !.db = saved.db ]
                 ELSE [ changed |-> TRUE, db |-> saved.db, file |-> saved.file,
                        sink |-> saved.sink,
                        rated |-> (obs.animal_name :> obs.rating_key)
                                      @@ rated_animals[s],
                        trigger |-> ratings_trigger[s] + 1,
                        notification |->
                            Notification(obs.rating_key, obs.animal_name) ]

\* one run of a rating handler inside the flush of session s; inputs are
\* the button values it runs with and rest the handlers still to re-run
RunHandler(s, id, inputs, rest, env) ==
    \E h \in { rating_handler(s, id, inputs[id], env) } :
    LET again == IF h.changed
                 THEN StuckHandlers(button_observers[s], inputs, h.rated)
                 ELSE rest
        flushed == again = {} /\ (h.changed \/ pending[s] # {})
    IN  /\ db' = h.db
        /\ backup_file' = h.file
        /\ clock' = IF h.sink = "csv" THEN clock + 1 ELSE clock
        /\ rated_animals' = [ rated_animals EXCEPT ![s] = h.rated ]
        /\ ratings_trigger' = [ ratings_trigger EXCEPT ![s] = h.trigger ]
        /\ notification' = [ notification EXCEPT ![s] = h.notification ]
        /\ summary_stale' =
             [ summary_stale EXCEPT ![s] = @ \/ h.changed ]
        /\ pending' = [ pending EXCEPT ![s] = again ]
        /\ IF flushed
           THEN RenderResults(s, aquarium_data, filtered[s], h.rated, inputs)
           ELSE /\ input_buttons' = [ input_buttons EXCEPT ![s] = inputs ]
                /\ UNCHANGED << button_observers, cards >>
        /\ UNCHANGED << MOTHERDUCK_TOKEN, aquarium_data, browsers, started,
                        search_query,
                        filtered, panels, summary, ret >>

\* the visitor clicks a rating button that is on the page
ClickRating(s, id) ==
    /\ started[s]
    /\ Quiet
    /\ panels[s].results
    /\ id \in ShownButtons(cards[s])
    /\ input_buttons[s][id] < MaxClicks
    /\ \E env \in SaveEnvs :
         RunHandler(s, id, [ input_buttons[s] EXCEPT ![id] = @ + 1 ], {}, env)

\* the flush re-runs a handler that rated_animals.set() invalidated
RerunHandler(s, id) ==
    /\ id \in pending[s]
    /\ \E env \in SaveEnvs :
         RunHandler(s, id, input_buttons[s], pending[s] \ {id}, env)

(***************************************************************************)
(* The application.                                                        *)
(***************************************************************************)
NoDatabases == [ motherduck |-> NoTable, local |-> NoTable ]
BothDatabases == [ motherduck |-> EmptyTable, local |-> EmptyTable ]

\* the databases as earlier runs of the process left them: none yet, or,
\* with a token, both initialised (one start with MotherDuck reachable and
\* one without)
EarlierDatabases(token) ==
    IF token THEN { NoDatabases, BothDatabases } ELSE { NoDatabases }

\* no browser has connected yet
NoSessions ==
    /\ started = [ s \in Sessions |-> FALSE ]
    /\ search_query = [ s \in Sessions |-> << >> ]
    /\ filtered = [ s \in Sessions |-> << >> ]
    /\ panels = [ s \in Sessions |-> panel_conditional(<< >>) ]
    /\ cards = [ s \in Sessions |-> << >> ]
    /\ rated_animals = [ s \in Sessions |-> EmptyMap ]
    /\ ratings_trigger = [ s \in Sessions |-> 0 ]
    /\ button_observers = [ s \in Sessions |-> EmptyMap ]
    /\ input_buttons = [ s \in Sessions |-> EmptyMap ]
    /\ pending = [ s \in Sessions |-> {} ]
    /\ notification = [ s \in Sessions |-> NoNotification ]
    /\ summary = [ s \in Sessions |-> None ]
    /\ summary_stale = [ s \in Sessions |-> TRUE ]

\* the state once the module is loaded: the table initialised (or not), the
\* dataset read from aquarium.csv or replaced by the sample
Init ==
    /\ MOTHERDUCK_TOKEN \in BOOLEAN
    /\ \E env \in InitEnvs : \E d \in EarlierDatabases(MOTHERDUCK_TOKEN) :
         db = initialize_ratings_table(d, MOTHERDUCK_TOKEN, env).db
    /\ aquarium_data = CsvData
    /\ backup_file = NoFile
    /\ clock = 0
    /\ browsers = { 1 }
    /\ ret = << >>
    /\ NoSessions

AllNames == { aquarium_data[i]["name"] : i \in 1..Len(aquarium_data) }
AllButtonIds ==
    { love_button_id(n) : n \in AllNames } \cup { nope_button_id(n) : n \in AllNames }

Start == \E s \in Sessions : StartSession(s)
Type == \E s \in Sessions : \E q \in TypedQueries : TypeQuery(s, q)
Featured == \E s \in Sessions : \E n \in AllNames : ClickFeatured(s, n)
SummaryEntry == \E s \in Sessions : \E n \in AllNames : ClickSummaryEntry(s, n)
Clear == \E s \in Sessions : ClearSearch(s)
Rate == \E s \in Sessions : \E id \in AllButtonIds : ClickRating(s, id)
Rerun == \E s \in Sessions : \E id \in AllButtonIds : RerunHandler(s, id)

Next == Start \/ Type \/ Featured \/ SummaryEntry \/ Clear \/ Rate \/ Rerun

Spec == Init /\ [][Next]_vars

(***************************************************************************)
(* The filter on its own: every small dataset, every small query.          *)
(***************************************************************************)
FilterChars == { "a", "B", "." }

StringsUpTo(chars, n) == UNION { [ 1..k -> chars ] : k \in 0..n }

FieldValues == { Null } \cup StringsUpTo(FilterChars, MaxFieldLen)
FilterQueries == StringsUpTo(FilterChars, MaxQueryLen) \ { << >> }

\* a row whose column c holds v; the other columns hold bg, and the name,
\* which is never missing, a text no query matches as a substring
FilterRow(c, v, bg) ==
    [ col \in SearchColumns |->
        IF col = c THEN v ELSE IF col = "name" THEN << "z" >> ELSE bg ]

FilterDatasets ==
    UNION { { [ i \in 1..n |-> FilterRow(c, vs[i], bg) ] :
                vs \in [ 1..n -> FieldValues ] } :
            n \in 1..MaxRows, c \in SearchColumns, bg \in { Null, << "a" >> } }

InitFilter ==
    /\ MOTHERDUCK_TOKEN = FALSE
    /\ db = [ motherduck |-> NoTable, local |-> EmptyTable ]
    /\ aquarium_data \in
         { D \in FilterDatasets : \A i \in 1..Len(D) : ~isna(D[i]["name"]) }
    /\ backup_file = NoFile
    /\ clock = 0
    /\ browsers = { 1 }
    /\ ret = << >>
    /\ NoSessions

Search == \E s \in Sessions : \E q \in FilterQueries : TypeQuery(s, q)

NextFilter == Start \/ Search \/ Clear

SpecFilter == InitFilter /\ [][NextFilter]_vars

\* the rows of D of which some designated field, lowercased, holds the
\* lowercased query as a substring, in dataset order
SubstringMatch(row, q) ==
    \E col \in SearchColumns :
        /\ ~isna(row[col])
        /\ IsSubstring(str_lower(q), str_lower(row[col]))
SubstringRows(D, q) ==
    SelectSeq([ i \in 1..Len(D) |-> i ], LAMBDA i : SubstringMatch(D[i], q))

\* C1: for every non-empty query and every dataset, filtered_data returns
\* exactly the rows of which one of the 8 designated fields, lowercased,
\* contains the lowercased query as a substring (a missing field matches
\* nothing), in dataset order.
C1_FilterIsSubstringMatch ==
    \A s \in Sessions :
        (started[s] /\ search_query[s] # << >>)
            => filtered[s] = SubstringRows(aquarium_data, search_query[s])

\* C2: the empty query selects no row, whatever the dataset, and the
\* landing panel is shown exactly when the query is empty, the results
\* panel exactly when it is not.
C2_EmptyQueryIsLanding ==
    \A s \in Sessions :
        started[s] =>
            /\ (search_query[s] = << >> => filtered[s] = << >>)
            /\ (panels[s].landing <=> search_query[s] = << >>)
            /\ (panels[s].results <=> search_query[s] # << >>)

\* a search showed cards of a non-empty dataset and was then cleared
C2_Witness ==
    \E s \in Sessions :
        /\ started[s]
        /\ search_query[s] = << >>
        /\ cards[s] # << >>
        /\ panels[s].landing

(***************************************************************************)
(* The store on its own: a caller runs save and summarize against tables   *)
(* that earlier sessions filled, and keeps the log of its calls in ret.    *)
(* Animal names and session ids are opaque to the store: numbers here.     *)
(***************************************************************************)
StoreAnimals == 1..NumStoreAnimals

\* the votes of animal i: all counts distinct, or the two lowest tied
Votes(i, shape) ==
    IF shape = "distinct" THEN i ELSE IF i <= 2 THEN 1 ELSE i - 1

\* k animals loved, by as many sessions as they have votes
LoveRows(k, shape) ==
    SetToBag(UNION { { RatingRow(j, i, LOVE) : j \in 1..Votes(i, shape) } :
                       i \in 1..k })

\* m animals disliked, by one more session
NopeRows(m) ==
    SetToBag({ RatingRow(NumStoreAnimals + 1, i, NOPE) : i \in 1..m })

StoreTables ==
    { NoTable, EmptyTable } \cup
    { [ exists |-> TRUE, index |-> TRUE, rows |-> LoveRows(k, shape) (+) NopeRows(m) ] :
        k \in (NumStoreAnimals - 2)..NumStoreAnimals,
        shape \in { "distinct", "tied" }, m \in 0..MaxNope }

InitStore ==
    /\ MOTHERDUCK_TOKEN \in BOOLEAN
    /\ \E t \in StoreTables :
         IF MOTHERDUCK_TOKEN
         THEN db = [ motherduck |-> t, local |-> EmptyTable ]
         ELSE db = [ motherduck |-> NoTable, local |-> t ]
    /\ aquarium_data = CsvData
    /\ backup_file = NoFile
    /\ clock = 0
    /\ browsers = { }
    /\ ret = << >>
    /\ NoSessions

NoRow == RatingRow(0, 0, "none")

\* the animals a caller rates: the one with the fewest votes and a new one
SavedAnimals == { 1, NumStoreAnimals + 1 }

\* save_rating(animal_name, rating, session_id) of session 0
StoreSave ==
    /\ Len(ret) < MaxCalls
    /\ \E a \in SavedAnimals : \E env \in SaveEnvs :
       \E r \in { save_rating(db, backup_file, clock, MOTHERDUCK_TOKEN, env,
                              a, LOVE, 0) } :
         /\ db' = r.db
         /\ backup_file' = r.file
         /\ clock' = IF r.sink = "csv" THEN clock + 1 ELSE clock
         /\ ret' = Append(ret,
               [ op |-> "save",
                 conn |-> get_duckdb_connection(MOTHERDUCK_TOKEN, env),
                 error |-> r.sink # "duckdb", sink |-> r.sink,
                 file_ok |-> env.file_ok, now |-> clock,
                 summary |-> None, row |-> RatingRow(0, a, LOVE) ])
    /\ UNCHANGED << MOTHERDUCK_TOKEN, aquarium_data, browsers >>
    /\ UNCHANGED sessionVars

\* get_ratings_summary()
StoreSummarize ==
    /\ Len(ret) < MaxCalls
    /\ \E env \in SummaryEnvs :
       \E sm \in get_ratings_summary(db, MOTHERDUCK_TOKEN, env) :
         ret' = Append(ret,
               [ op |-> "summarize",
                 conn |-> get_duckdb_connection(MOTHERDUCK_TOKEN, env),
                 error |-> env.fail_at # 0
                           \/ get_duckdb_connection(MOTHERDUCK_TOKEN, env) = "fail",
                 sink |-> "none", file_ok |-> TRUE, now |-> clock,
                 summary |-> sm, row |-> NoRow ])
    /\ UNCHANGED << MOTHERDUCK_TOKEN, aquarium_data, db, backup_file, clock,
                    browsers >>
    /\ UNCHANGED sessionVars

NextStore == StoreSave \/ StoreSummarize

SpecStore == InitStore /\ [][NextStore]_vars

\* the calls logged so far, and the last of them
Calls == 1..Len(ret)
LastCall == ret[Len(ret)]
SummarizeReturned ==
    /\ Len(ret) > 0
    /\ LastCall.op = "summarize"

\* the stored RatingEvents of animal a with rating value v
StoredEvents(rows, a, v) ==
    BagCardinality([ r \in { x \in BagToSet(rows) :
                               x.animal_name = a /\ x.rating = v } |-> rows[r] ])

Listed(L) == { L[i].animal_name : i \in 1..Len(L) }

Min(a, b) == IF a <= b THEN a ELSE b

TopTenOf(rows, v, L) ==
    /\ \A i \in 1..Len(L) : L[i].n = StoredEvents(rows, L[i].animal_name, v)
    /\ \A i, j \in 1..Len(L) : i < j => L[i].n >= L[j].n
    /\ \A i, j \in 1..Len(L) : i < j => L[i].animal_name # L[j].animal_name
    /\ Len(L) = Min(LIMIT, Cardinality(VotedAnimals(rows, v)))
    /\ \A a \in VotedAnimals(rows, v) \ Listed(L) :
           \A i \in 1..Len(L) : StoredEvents(rows, a, v) <= L[i].n

\* C7: for each of the two rating values, the list summarize() returns holds
\* (animal_name, count) pairs whose count is exactly the number of stored
\* RatingEvents with that animal and value, is ordered by count descending,
\* has at most 10 entries (the first 10 of the order), and leaves out no
\* animal with a strictly larger count than an animal it includes.
C7_SummaryIsTopTen ==
    (SummarizeReturned /\ ~LastCall.summary.none) =>
        /\ TopTenOf(db[LastCall.conn].rows, LOVE, LastCall.summary.love)
        /\ TopTenOf(db[LastCall.conn].rows, NOPE, LastCall.summary.nope)
        /\ Len(LastCall.summary.love) <= LIMIT
        /\ Len(LastCall.summary.nope) <= LIMIT

\* summarize() cut a list at 10 animals out of 11 voted ones, two of them
\* tied at the cut
C7_Witness ==
    /\ SummarizeReturned
    /\ ~LastCall.summary.none
    /\ Len(LastCall.summary.love) = LIMIT
    /\ Cardinality(VotedAnimals(db[LastCall.conn].rows, LOVE)) > LIMIT
    /\ \E a \in VotedAnimals(db[LastCall.conn].rows, LOVE)
                  \ Listed(LastCall.summary.love) :
           StoredEvents(db[LastCall.conn].rows, a, LOVE)
               = LastCall.summary.love[LIMIT].n
    /\ LastCall.summary.nope # << >>

\* C8: summarize() returns the sentinel None when the ratings table is empty,
\* when it is absent, and when a connection or query error occurs; otherwise,
\* the table holding at least one row, it returns the two lists; it always
\* returns one of the two and raises nothing.
C8_NoneOrLists ==
    SummarizeReturned =>
        /\ LastCall.summary.none <=>
               \/ LastCall.conn = "fail"
               \/ LastCall.error
               \/ ~db[LastCall.conn].exists
               \/ BagCardinality(db[LastCall.conn].rows) = 0
        /\ LastCall.summary.none => LastCall.summary = None
        /\ ~LastCall.summary.none =>
               LastCall.summary.love # << >> \/ LastCall.summary.nope # << >>

\* a query of summarize() failed on a table that holds rows
C8_Witness ==
    /\ SummarizeReturned
    /\ LastCall.summary.none
    /\ LastCall.conn # "fail"
    /\ LastCall.error
    /\ BagCardinality(db[LastCall.conn].rows) > 0

\* the count summarize() reported for animal a and rating value v
Reported(sm, a, v) ==
    LET L == IF v = LOVE THEN sm.love ELSE sm.nope
        at == { i \in 1..Len(L) : L[i].animal_name = a }
    IN  IF at = {} THEN 0 ELSE L[CHOOSE i \in at : TRUE].n

\* the calls i, i+1, i+2 are summarize, save, summarize
RoundTrip(i) ==
    /\ i + 2 \in Calls
    /\ ret[i].op = "summarize"
    /\ ret[i + 1].op = "save"
    /\ ret[i + 2].op = "summarize"

\* C4 as stated: after a save the next summarize() reports the count of the
\* saved (animal, rating value) incremented by exactly 1 compared with the
\* summarize() before the save.
C4_Original ==
    \A i \in Calls :
        RoundTrip(i) =>
            Reported(ret[i + 2].summary, ret[i + 1].row.animal_name,
                     ret[i + 1].row.rating)
              = Reported(ret[i].summary, ret[i + 1].row.animal_name,
                         ret[i + 1].row.rating) + 1

\* the insert of the save succeeded, and both summarize() calls read the
\* database it went to without a connection or query error
SameDatabase(i) ==
    /\ ret[i + 1].sink = "duckdb"
    /\ ret[i].conn = ret[i + 1].conn
    /\ ret[i + 2].conn = ret[i + 1].conn
    /\ ~ret[i].error
    /\ ~ret[i + 2].error

\* the earlier summarize() listed the animal, or listed fewer than 10
ListedOrRoom(sm, a, v) ==
    LET L == IF v = LOVE THEN sm.love ELSE sm.nope
    IN  a \in Listed(L) \/ Len(L) < LIMIT

\* C4 amended: when the insert of the save succeeds and the summarize() calls
\* before and after it read, without error, the database the insert went to,
\* the later call reports the count of the saved (animal, rating value)
\* incremented by exactly 1, provided the earlier call listed the animal or
\* listed fewer than 10 animals for that value.
C4_RoundTrip ==
    \A i \in Calls :
        (/\ RoundTrip(i)
         /\ SameDatabase(i)
         /\ ListedOrRoom(ret[i].summary, ret[i + 1].row.animal_name,
                         ret[i + 1].row.rating)) =>
            Reported(ret[i + 2].summary, ret[i + 1].row.animal_name,
                     ret[i + 1].row.rating)
              = Reported(ret[i].summary, ret[i + 1].row.animal_name,
                         ret[i + 1].row.rating) + 1

\* a round trip on one database for an animal the earlier list held in its
\* last place of 10
C4_Witness ==
    \E i \in Calls :
        /\ RoundTrip(i)
        /\ SameDatabase(i)
        /\ Len(ret[i].summary.love) = LIMIT
        /\ ret[i].summary.love[LIMIT].animal_name = ret[i + 1].row.animal_name
        /\ Reported(ret[i + 2].summary, ret[i + 1].row.animal_name, LOVE) = 2

\* the saves logged so far whose insert failed, in call order
RECURSIVE FailedInserts(_)
FailedInserts(log) ==
    IF log = << >> THEN << >>
    ELSE LET c == log[Len(log)]
             before == FailedInserts(SubSeq(log, 1, Len(log) - 1))
         IN  IF c.op = "save" /\ c.error THEN Append(before, c) ELSE before

\* the file that holds one header and one data line for each call of F
FileOf(F) ==
    IF F = << >> THEN NoFile
    ELSE [ exists |-> TRUE,
           lines |-> << BackupHeader >> \o
               [ k \in 1..Len(F) |->
                   [ header |-> FALSE,
                     cells |-> << F[k].now, F[k].row.session_id,
                                  F[k].row.animal_name, F[k].row.rating >> ] ] ]

\* C5 as stated: every save whose insert fails appends exactly one data line
\* of the 4 fields timestamp, session_id, animal_name, rating, and the header
\* is written once, so that after n failed inserts the file holds one header
\* followed by n data lines.
C5_Original ==
    backup_file = FileOf(FailedInserts(ret))

\* C5 amended: every save whose insert fails while the fallback file can be
\* written appends exactly one data line of the 4 fields timestamp,
\* session_id, animal_name, rating in that order, and the header is written
\* only by the write that creates the file: after n such saves the file holds
\* one header followed by n data lines; a save whose insert and file write
\* both fail appends nothing.
C5_FallbackFile ==
    /\ backup_file = FileOf(SelectSeq(FailedInserts(ret), LAMBDA c : c.file_ok))
    /\ \A i \in Calls :
           (ret[i].op = "save" /\ ret[i].error) =>
               (ret[i].sink = "csv" <=> ret[i].file_ok)

\* two fallback saves in a row: the second appended below the first
C5_Witness ==
    /\ Len(backup_file.lines) = 3
    /\ Len(FailedInserts(ret)) = 2
    /\ backup_file.lines[3].cells[1] # backup_file.lines[2].cells[1]

(***************************************************************************)
(* Properties of the sessions.                                             *)
(***************************************************************************)
\* the RatingEvents written for animal a by session s, in the databases and
\* in the fallback file
EventsOf(s, a) ==
    SumCopies(db.motherduck.rows,
              { r \in BagToSet(db.motherduck.rows) :
                  r.session_id = s /\ r.animal_name = a })
    + SumCopies(db.local.rows,
                { r \in BagToSet(db.local.rows) :
                    r.session_id = s /\ r.animal_name = a })
    + Cardinality({ k \in 1..Len(backup_file.lines) :
                      /\ ~backup_file.lines[k].header
                      /\ backup_file.lines[k].cells[2] = s
                      /\ backup_file.lines[k].cells[3] = a })

\* button id of session s was clicked in this step and stays clicked
ClickedButton(s, id) ==
    /\ id \in DOMAIN input_buttons[s]
    /\ id \in DOMAIN input_buttons'[s]
    /\ input_buttons'[s][id] = input_buttons[s][id] + 1

\* C3: within one session at most one RatingEvent is ever written for each
\* animal, to the databases and the fallback file together; once animal A is
\* rated no step writes for A again, and a click on a rating control of A
\* writes nothing and leaves the rated set unchanged.
C3_AtMostOneEvent ==
    /\ [](\A s \in Sessions : \A a \in AllNames : EventsOf(s, a) <= 1)
    /\ [][\A s \in Sessions :
            /\ \A a \in DOMAIN rated_animals[s] : EventsOf(s, a)' = EventsOf(s, a)
            /\ \A id \in DOMAIN button_observers[s] :
                 (/\ ClickedButton(s, id)
                  /\ button_observers[s][id].animal_name \in DOMAIN rated_animals[s])
                     => UNCHANGED << db, backup_file, rated_animals >>]_vars

\* a button on the page was clicked although its observer's animal is rated
C3_Witness ==
    \E s \in Sessions : \E id \in ShownButtons(cards[s]) :
        /\ input_buttons[s][id] >= 1
        /\ button_observers[s][id].animal_name \in DOMAIN rated_animals[s]
        /\ EventsOf(s, button_observers[s][id].animal_name) = 1

\* C6: the rating state of an animal in a session only goes from unrated to
\* rated with a value: no step removes a rated animal from rated_animals or
\* changes its value, and every rendering of its card from then on shows the
\* acknowledgment of that value instead of the buttons.
C6_UnratedToRatedOnly ==
    /\ [][\A s \in Sessions : \A a \in DOMAIN rated_animals[s] :
            /\ a \in DOMAIN rated_animals'[s]
            /\ rated_animals'[s][a] = rated_animals[s][a]]_vars
    /\ [](\A s \in Sessions :
            pending[s] = {} =>
                \A k \in 1..Len(cards[s]) :
                    cards[s][k].state =
                        IF cards[s][k].name \in DOMAIN rated_animals[s]
                        THEN rated_animals[s][cards[s][k].name]
                        ELSE "buttons")

\* two animals are rated, one each way, and the page, rendered after the
\* second rating, shows the acknowledgment of both
C6_Witness ==
    \E s \in Sessions : \E j, k \in 1..Len(cards[s]) :
        /\ pending[s] = {}
        /\ cards[s][j].state = "love"
        /\ cards[s][k].state = "nope"
        /\ rated_animals[s][cards[s][j].name] = "love"
        /\ rated_animals[s][cards[s][k].name] = "nope"

\* the visitor of session s can click button id, whose animal is unrated
CanRate(s, id) ==
    /\ started[s]
    /\ Quiet
    /\ panels[s].results
    /\ id \in ShownButtons(cards[s])
    /\ button_observers[s][id].animal_name \notin DOMAIN rated_animals[s]

\* the insert of the event of button id fails in environment env
InsertFails(s, id, env) ==
    ~save_rating_to_duckdb(db, MOTHERDUCK_TOKEN, env,
         RatingRow(s, button_observers[s][id].animal_name,
                   button_observers[s][id].rating_type)).ret

\* what the visitor sees after the click is what a stored rating shows: the
\* event is the new last line of the fallback file, the animal is rated and
\* the notification is the one of its rating
LooksStored(s, id, h) ==
    LET obs == button_observers[s][id] IN
    /\ h.file.exists
    /\ Len(h.file.lines) = (IF backup_file.exists THEN Len(backup_file.lines) ELSE 1) + 1
    /\ h.file.lines[Len(h.file.lines)]
         = [ header |-> FALSE,
             cells |-> << clock, s, obs.animal_name, obs.rating_type >> ]
    /\ h.db = db
    /\ obs.animal_name \in DOMAIN h.rated
    /\ h.rated[obs.animal_name] = obs.rating_key
    /\ h.notification = [ kind |-> obs.rating_key, animal_name |-> obs.animal_name ]
    /\ \A ok \in SaveEnvs :
           ~InsertFails(s, id, ok) =>
               /\ rating_handler(s, id, 1, ok).notification = h.notification
               /\ rating_handler(s, id, 1, ok).rated = h.rated

\* C9 as stated: whenever the database write of a rating click fails, the
\* event goes to the fallback file, the animal is marked rated and the
\* notification is the one shown when the database write succeeds.
C9_Original ==
    \A s \in Sessions : \A id \in AllButtonIds :
        CanRate(s, id) =>
            \A env \in SaveEnvs :
                InsertFails(s, id, env) =>
                    LooksStored(s, id, rating_handler(s, id, 1, env))

\* C9 amended: whenever the database write of a rating click fails and the
\* fallback file can be written, the event goes to the fallback file, the
\* animal is marked rated and the notification is the one shown when the
\* database write succeeds; when the file cannot be written either, nothing
\* is recorded, the animal stays unrated and no notification is shown.
C9_FallbackInvisible ==
    \A s \in Sessions : \A id \in AllButtonIds :
        CanRate(s, id) =>
            \A env \in SaveEnvs :
                InsertFails(s, id, env) =>
                    IF env.file_ok
                    THEN LooksStored(s, id, rating_handler(s, id, 1, env))
                    ELSE /\ ~rating_handler(s, id, 1, env).changed
                         /\ rating_handler(s, id, 1, env).rated = rated_animals[s]
                         /\ rating_handler(s, id, 1, env).file = backup_file
                         /\ rating_handler(s, id, 1, env).notification
                              = notification[s]

\* a rating went to the fallback file: the animal is rated, its card shows
\* the acknowledgment and the notification names it, and no database holds
\* a row
C9_Witness ==
    \E s \in Sessions : \E k \in 1..Len(cards[s]) :
        /\ cards[s][k].state \in { "love", "nope" }
        /\ notification[s].animal_name = cards[s][k].name
        /\ notification[s].kind = cards[s][k].state
        /\ backup_file.exists
        /\ backup_file.lines[Len(backup_file.lines)].cells[3] = cards[s][k].name
        /\ BagCardinality(db.motherduck.rows) + BagCardinality(db.local.rows) = 0

\* the query a click on the card or leaderboard entry of animal n leaves
ClickedQuery(s, n) ==
    IF onclick_value(n) = JsNotRun \/ onclick_value(n) = << >>
    THEN search_query[s]
    ELSE onclick_value(n)

\* C10: on the landing page, a click on the featured card or the leaderboard
\* entry of animal n sets the search query to n and so shows the results
\* panel.
C10_ClickSetsQuery ==
    \A s \in Sessions :
        (started[s] /\ Quiet /\ panels[s].landing) =>
            \A n \in FeaturedNames \cup SummaryNames(s) :
                /\ ClickedQuery(s, n) = n
                /\ panel_conditional(ClickedQuery(s, n)).results

(***************************************************************************)
(* The three store operations called in any order, by any session, each    *)
(* in its own environment; ret logs the calls with their environments.     *)
(***************************************************************************)
\* a table that one earlier session left one event in
OneRowTable ==
    [ exists |-> TRUE, index |-> TRUE,
      rows |-> SetToBag({ RatingRow(0, SeaEel, LOVE) }) ]

OpsTables == { NoTable, EmptyTable, OneRowTable }

InitOps ==
    /\ MOTHERDUCK_TOKEN \in BOOLEAN
    /\ db \in [ motherduck : OpsTables, local : OpsTables ]
    /\ aquarium_data = CsvData
    /\ backup_file = NoFile
    /\ clock = 0
    /\ browsers = { }
    /\ ret = << >>
    /\ NoSessions

\* the log record of one call
OpRecord(op, env, ok) ==
    [ op |-> op, conn |-> get_duckdb_connection(MOTHERDUCK_TOKEN, env),
      md_ok |-> env.md_ok, local_ok |-> env.local_ok, fail_at |-> env.fail_at,
      ok |-> ok ]

\* initialize_ratings_table(), as every start of the process calls it
OpsInit ==
    /\ Len(ret) < MaxOps
    /\ \E env \in { e \in Envs : e.fail_at <= 2 /\ e.file_ok } :
       \E r \in { initialize_ratings_table(db, MOTHERDUCK_TOKEN, env) } :
         /\ db' = r.db
         /\ ret' = Append(ret, OpRecord("init", env, r.ret))
    /\ UNCHANGED << MOTHERDUCK_TOKEN, aquarium_data, backup_file, clock, browsers >>
    /\ UNCHANGED sessionVars

\* save_rating(animal_name, rating, session_id) of any session
OpsSave ==
    /\ Len(ret) < MaxOps
    /\ \E s \in Sessions : \E env \in SaveEnvs :
       \E r \in { save_rating(db, backup_file, clock, MOTHERDUCK_TOKEN, env,
                              SeaEel, LOVE, s) } :
         /\ db' = r.db
         /\ backup_file' = r.file
         /\ clock' = IF r.sink = "csv" THEN clock + 1 ELSE clock
         /\ ret' = Append(ret, OpRecord("save", env, r.sink = "duckdb"))
    /\ UNCHANGED << MOTHERDUCK_TOKEN, aquarium_data, browsers >>
    /\ UNCHANGED sessionVars

\* get_ratings_summary()
OpsSummarize ==
    /\ Len(ret) < MaxOps
    /\ \E env \in SummaryEnvs :
       \E sm \in get_ratings_summary(db, MOTHERDUCK_TOKEN, env) :
         ret' = Append(ret, OpRecord("summarize", env, ~sm.none))
    /\ UNCHANGED << MOTHERDUCK_TOKEN, aquarium_data, db, backup_file, clock,
                    browsers >>
    /\ UNCHANGED sessionVars

NextOps == OpsInit \/ OpsSave \/ OpsSummarize

SpecOps == InitOps /\ [][NextOps]_vars

\* this step is a call of op, logged as the new last record
Called(op) ==
    /\ Len(ret') = Len(ret) + 1
    /\ ret'[Len(ret')].op = op

DatabaseNames == { "motherduck", "local" }

\* C11: initialize_ratings_table is idempotent: a call that meets no
\* connection or statement error returns True and leaves the table and the
\* index in place, whatever was there before; it never changes the stored
\* rows; and on a database that is already initialised it changes nothing, so
\* that a second call returns True again and produces no second table.
C11_InitIdempotent ==
    [][Called("init") =>
         LET c == ret'[Len(ret')] IN
         /\ \A n \in DatabaseNames : db'[n].rows = db[n].rows
         /\ (c.conn # "fail" /\ c.fail_at = 0) =>
                /\ c.ok
                /\ db'[c.conn].exists /\ db'[c.conn].index
                /\ (db[c.conn].exists /\ db[c.conn].index) => db' = db
         /\ \A n \in DatabaseNames : n # c.conn => db'[n] = db[n]]_vars

\* two calls in a row returned True on the database that holds a row
C11_Witness ==
    /\ Len(ret) = 2
    /\ ret[1].op = "init" /\ ret[2].op = "init"
    /\ ret[1].ok /\ ret[2].ok
    /\ ret[1].conn = ret[2].conn
    /\ BagCardinality(db[ret[2].conn].rows) = 1

\* C12: the store is append-only: no step of init, save or summarize removes
\* or changes a stored row, a table or a line of the fallback file, so the
\* number of stored events never decreases; and summarize changes no stored
\* state.
C12_AppendOnly ==
    [][/\ \A n \in DatabaseNames :
            /\ db[n].rows \sqsubseteq db'[n].rows
            /\ BagCardinality(db[n].rows) <= BagCardinality(db'[n].rows)
            /\ db[n].exists => db'[n].exists
       /\ Len(backup_file.lines) <= Len(backup_file'.lines)
       /\ \A k \in 1..Len(backup_file.lines) :
            backup_file'.lines[k] = backup_file.lines[k]
       /\ Called("summarize") => UNCHANGED << db, backup_file >>]_vars

\* a save of a second session added a row to the row an earlier one stored,
\* and a summarize followed
C12_Witness ==
    /\ Len(ret) = 2
    /\ ret[1].op = "save" /\ ret[1].ok
    /\ ret[2].op = "summarize" /\ ret[2].ok
    /\ BagCardinality(db[ret[1].conn].rows) = 2

\* the backend the policy names for one call, from the token and from how
\* the two connections answer this call
ChosenBackend(token, md_ok, local_ok) ==
    IF token /\ md_ok THEN "motherduck"
    ELSE IF local_ok THEN "local"
    ELSE "fail"

\* C13: every store operation chooses its backend anew: the local database
\* without a token, the hosted database with a token when its connection
\* succeeds, the local database with a token when the hosted connection
\* fails; the choice depends on this call alone, and the call touches only
\* the database it chose.
C13_BackendPerOperation ==
    /\ [](\A i \in 1..Len(ret) :
            ret[i].conn = ChosenBackend(MOTHERDUCK_TOKEN, ret[i].md_ok,
                                        ret[i].local_ok))
    /\ [][Len(ret') = Len(ret) + 1 =>
            \A n \in DatabaseNames :
                n # ChosenBackend(MOTHERDUCK_TOKEN, ret'[Len(ret')].md_ok,
                                  ret'[Len(ret')].local_ok)
                    => db'[n] = db[n]]_vars

\* with a token, a save fell back to the local database and the next save
\* went to the hosted one
C13_Witness ==
    /\ MOTHERDUCK_TOKEN
    /\ Len(ret) = 2
    /\ ret[1].op = "save" /\ ret[2].op = "save"
    /\ ~ret[1].md_ok /\ ret[1].conn = "local" /\ ret[1].ok
    /\ ret[2].md_ok /\ ret[2].conn = "motherduck" /\ ret[2].ok

(***************************************************************************)
(* Two browsers on one process: the sessions share the databases and the   *)
(* fallback file and nothing else.                                         *)
(***************************************************************************)
\* an aquarium.csv of one animal
OneAnimalData == SubSeq(CsvData, 1, 1)

InitTwo ==
    /\ MOTHERDUCK_TOKEN = FALSE
    /\ \E env \in InitEnvs :
         db = initialize_ratings_table(NoDatabases, MOTHERDUCK_TOKEN, env).db
    /\ aquarium_data = OneAnimalData
    /\ backup_file = NoFile
    /\ clock = 0
    /\ browsers = Sessions
    /\ ret = << >>
    /\ NoSessions

\* the steps of the application; with one animal in the dataset a rating
\* leaves no handler that would still save (StuckHandlers is empty), so
\* pending stays empty and RerunHandler is never enabled
NextTwo == Start \/ Type \/ Featured \/ SummaryEntry \/ Clear \/ Rate

SpecTwo == InitTwo /\ [][NextTwo]_vars

\* no flush of SpecTwo leaves a handler to re-run
NoRerunInTwo == \A s \in Sessions : pending[s] = {}

\* what a session holds of its own
SessionState(s) ==
    << search_query[s], filtered[s], panels[s], rated_animals[s],
       ratings_trigger[s], button_observers[s], notification[s] >>

\* C14: sessions are isolated except through the shared store: a step in
\* which one session rates changes no other session's rated set, query,
\* observers or notification; what another session rated never keeps a
\* session from rating the same animal; and every event written carries the
\* session id of the session that rated, one event per rated animal and
\* session.
C14_SessionsIsolated ==
    /\ [][\A s \in Sessions :
            rated_animals'[s] # rated_animals[s] =>
                /\ \A o \in Sessions \ {s} : SessionState(o)' = SessionState(o)
                /\ \A a \in DOMAIN rated_animals'[s] \ DOMAIN rated_animals[s] :
                     /\ EventsOf(s, a)' = EventsOf(s, a) + 1
                     /\ \A o \in Sessions \ {s} :
                          EventsOf(o, a)' = EventsOf(o, a)]_vars
    /\ [](\A s \in Sessions : \A a \in AllNames :
            EventsOf(s, a) = IF a \in DOMAIN rated_animals[s] THEN 1 ELSE 0)
    /\ [](\A s \in Sessions : \A id \in AllButtonIds :
            CanRate(s, id) =>
                \A env \in SaveEnvs :
                    (~InsertFails(s, id, env) \/ env.file_ok)
                        => rating_handler(s, id, 1, env).changed)

\* both sessions rated the same animal, each its own way, and each event
\* is stored under its session
C14_Witness ==
    \E a \in AllNames :
        /\ a \in DOMAIN rated_animals[1] /\ a \in DOMAIN rated_animals[2]
        /\ rated_animals[1][a] # rated_animals[2][a]
        /\ EventsOf(1, a) = 1 /\ EventsOf(2, a) = 1
        /\ search_query[1] # search_query[2]

(***************************************************************************)
(* Start-up of either application, with and without aquarium.csv; ret      *)
(* holds the record of the load.                                           *)
(***************************************************************************)
Apps == { "persistence/motherduck", "python" }

\* the module-level read of aquarium.csv: persistence/motherduck catches
\* FileNotFoundError and substitutes the sample, python does not
read_csv(app, csv_present) ==
    IF csv_present THEN [ data |-> CsvData, raised |-> FALSE ]
    ELSE IF app = "persistence/motherduck"
    THEN [ data |-> SampleData, raised |-> FALSE ]
    ELSE [ data |-> << >>, raised |-> TRUE ]

\* only persistence/motherduck has the ratings
HasRatings == ret[1].app = "persistence/motherduck"

InitLoad ==
    /\ MOTHERDUCK_TOKEN = FALSE
    /\ \E app \in Apps : \E csv_present \in BOOLEAN :
       \E r \in { read_csv(app, csv_present) } :
         /\ aquarium_data = r.data
         /\ ret = << [ op |-> "load", app |-> app, csv_present |-> csv_present,
                       raised |-> r.raised ] >>
         /\ browsers = IF r.raised THEN { } ELSE { 1 }
         \* the ratings table could not be created (the warning at start-up):
         \* every rating of these runs goes to the backup file
         /\ db = NoDatabases
    /\ backup_file = NoFile
    /\ clock = 0
    /\ NoSessions

LoadRate == HasRatings /\ Rate
LoadRerun == HasRatings /\ Rerun

\* the steps after start-up; the leaderboard of these runs is None (no
\* ratings table), so it has no entry to click
NextLoad == Start \/ Type \/ Featured \/ Clear \/ LoadRate \/ LoadRerun

SpecLoad == InitLoad /\ [][NextLoad]_vars

\* C15: a missing aquarium.csv does not make the application fail at
\* start-up: the dataset is then the fixed 3-row sample; and the dataset,
\* loaded once, is never modified by a search, navigation or rating step.
C15_MissingCsvGivesSample ==
    /\ [](/\ ~ret[1].raised
          /\ ~ret[1].csv_present => aquarium_data = SampleData
          /\ ret[1].csv_present => aquarium_data = CsvData)
    /\ [][aquarium_data' = aquarium_data]_vars

\* the ids of the two buttons of a card
CardButtons(card) == { card.love_id, card.nope_id }

\* C16: a click on a rating button shown on the card of animal A records an
\* event whose animal_name is A and marks A, and no other animal, as rated,
\* whichever animals are shown together.
C16_ButtonRatesItsAnimal ==
    \A s \in Sessions :
        (started[s] /\ Quiet /\ panels[s].results) =>
            \A k \in 1..Len(cards[s]) :
                cards[s][k].state = "buttons" =>
                    \A id \in CardButtons(cards[s][k]) : \A env \in SaveEnvs :
                        LET h == rating_handler(s, id, 1, env) IN
                        /\ button_observers[s][id].animal_name = cards[s][k].name
                        /\ h.changed =>
                             DOMAIN h.rated
                               = DOMAIN rated_animals[s] \cup { cards[s][k].name }

\* the events of animal a and session s in the database tables
DbEvents(s, a) ==
    SumCopies(db.motherduck.rows,
              { r \in BagToSet(db.motherduck.rows) :
                  r.session_id = s /\ r.animal_name = a })
    + SumCopies(db.local.rows,
                { r \in BagToSet(db.local.rows) :
                    r.session_id = s /\ r.animal_name = a })

\* the events of animal a and session s in the fallback file
FileEvents(s, a) ==
    Cardinality({ k \in 1..Len(backup_file.lines) :
                    /\ ~backup_file.lines[k].header
                    /\ backup_file.lines[k].cells[2] = s
                    /\ backup_file.lines[k].cells[3] = a })

\* C17: every rating action that ends with the animal marked rated leaves
\* exactly one record of the event across the two sinks: the step that marks
\* the animal adds one row to a database table and leaves the file alone, or
\* adds one line to the file and leaves the databases alone; the record is
\* in the table when the insert reported success and in the file otherwise;
\* never in both, never in neither.
C17_ExactlyOneSink ==
    /\ [](\A s \in Sessions : \A a \in DOMAIN rated_animals[s] :
            \/ DbEvents(s, a) = 1 /\ FileEvents(s, a) = 0
            \/ DbEvents(s, a) = 0 /\ FileEvents(s, a) = 1)
    /\ [][\A s \in Sessions :
            \A a \in DOMAIN rated_animals'[s] \ DOMAIN rated_animals[s] :
                \/ /\ DbEvents(s, a)' = DbEvents(s, a) + 1
                   /\ backup_file' = backup_file
                \/ /\ FileEvents(s, a)' = FileEvents(s, a) + 1
                   /\ db' = db]_vars
    /\ [](\A s \in Sessions : \A id \in AllButtonIds :
            CanRate(s, id) =>
                \A env \in SaveEnvs :
                    LET h == rating_handler(s, id, 1, env) IN
                    h.changed =>
                        IF InsertFails(s, id, env)
                        THEN h.sink = "csv" /\ h.db = db /\ h.file # backup_file
                        ELSE h.sink = "duckdb" /\ h.file = backup_file /\ h.db # db)

\* one session rated two animals: the event of one is in a database table,
\* the event of the other in the fallback file
C17_Witness ==
    \E s \in Sessions : \E a, b \in DOMAIN rated_animals[s] :
        /\ DbEvents(s, a) = 1 /\ FileEvents(s, a) = 0
        /\ DbEvents(s, b) = 0 /\ FileEvents(s, b) = 1

\* what save_rating does for a click on button id of session s
SaveOf(s, id, env) ==
    save_rating(db, backup_file, clock, MOTHERDUCK_TOKEN, env,
                button_observers[s][id].animal_name,
                button_observers[s][id].rating_type, s)

\* C18: the write precedes the state change: the handler updates the rated
\* set, the refresh trigger and the notification only with the store as
\* save_rating left it after returning; when save_rating raises (insert and
\* file append both fail) the animal stays unrated, the trigger and the
\* notification are unchanged and the handler ends normally; and no step
\* changes the rated set, the trigger or the notification of a session
\* without writing an event.
C18_WriteBeforeStateChange ==
    /\ [](\A s \in Sessions : \A id \in AllButtonIds :
            CanRate(s, id) =>
                \A env \in SaveEnvs :
                    LET h == rating_handler(s, id, 1, env)
                        saved == SaveOf(s, id, env)
                    IN  IF saved.raised
                        THEN /\ ~h.changed
                             /\ h.rated = rated_animals[s]
                             /\ h.trigger = ratings_trigger[s]
                             /\ h.notification = notification[s]
                        ELSE /\ h.changed
                             /\ h.db = saved.db /\ h.file = saved.file
                             /\ saved.sink \in { "duckdb", "csv" }
                             /\ button_observers[s][id].animal_name
                                  \in DOMAIN h.rated
                             /\ h.trigger = ratings_trigger[s] + 1)
    /\ [][\A s \in Sessions :
            (\/ rated_animals'[s] # rated_animals[s]
             \/ ratings_trigger'[s] # ratings_trigger[s]
             \/ notification'[s] # notification[s])
                => /\ db' # db \/ backup_file' # backup_file
                   /\ ratings_trigger'[s] = ratings_trigger[s] + 1
                   /\ Cardinality(DOMAIN rated_animals'[s])
                        = Cardinality(DOMAIN rated_animals[s]) + 1]_vars

\* a click ran the handler and save_rating raised: the button is still on
\* the page with its click counted, the animal is unrated, the trigger is 0
\* and no notification was shown
C18_Witness ==
    \E s \in Sessions : \E id \in ShownButtons(cards[s]) :
        /\ pending[s] = {}
        /\ input_buttons[s][id] = 1
        /\ button_observers[s][id].animal_name \notin DOMAIN rated_animals[s]
        /\ ratings_trigger[s] = 0
        /\ notification[s] = NoNotification
        /\ backup_file = NoFile

(***************************************************************************)
(* The button identifiers on their own: every short name over letters,     *)
(* a digit and the separators found in animal names.                       *)
(***************************************************************************)
NameChars == { "a", "Z", "7", " ", "-", "_", "'" }

IdNames == StringsUpTo(NameChars, MaxNameLen)

InitIds ==
    /\ MOTHERDUCK_TOKEN = FALSE
    /\ db = NoDatabases
    /\ \E n \in IdNames :
         aquarium_data = << Row(n, Null, Null, Null, Null, Null, Null, Null) >>
    /\ backup_file = NoFile
    /\ clock = 0
    /\ browsers = { }
    /\ ret = << >>
    /\ NoSessions

\* search_results computes the ids of the card of the row
MakeIds ==
    /\ ret = << >>
    /\ \E name \in { aquarium_data[1]["name"] } :
         ret' = << [ op |-> "sanitize_id", name |-> name,
                     id |-> sanitize_id(name),
                     twice |-> sanitize_id(sanitize_id(name)),
                     love |-> love_button_id(name),
                     nope |-> nope_button_id(name) ] >>
    /\ UNCHANGED << MOTHERDUCK_TOKEN, aquarium_data, db, backup_file, clock,
                    browsers >>
    /\ UNCHANGED sessionVars

NextIds == MakeIds

SpecIds == InitIds /\ [][NextIds]_vars

IdChars ==
    { "a", "b", "c", "d", "e", "f", "g", "h", "i", "j", "k", "l", "m", "n", "o",
      "p", "q", "r", "s", "t", "u", "v", "w", "x", "y", "z",
      "A", "B", "C", "D", "E", "F", "G", "H", "I", "J", "K", "L", "M", "N", "O",
      "P", "Q", "R", "S", "T", "U", "V", "W", "X", "Y", "Z",
      "0", "1", "2", "3", "4", "5", "6", "7", "8", "9", "_" }

\* C19: sanitize_id maps every name to an identifier of ASCII letters,
\* digits and underscores only, with no two consecutive underscores and no
\* leading or trailing underscore; it keeps the letters and digits of the
\* name in order; applying it to its own result changes nothing; and the two
\* button ids of a card are "love_" and "nope_" followed by that identifier.
C19_SanitizedId ==
    ret # << >> =>
        LET id == ret[1].id
            name == ret[1].name
        IN  /\ \A i \in 1..Len(id) : id[i] \in IdChars
            /\ \A i \in 1..(Len(id) - 1) : ~(id[i] = "_" /\ id[i + 1] = "_")
            /\ id # << >> => (id[1] # "_" /\ id[Len(id)] # "_")
            /\ SelectSeq(id, LAMBDA c : c # "_")
                 = SelectSeq(name, LAMBDA c : c \in IdChars /\ c # "_")
            /\ ret[1].twice = id
            /\ ret[1].love = << "l", "o", "v", "e", "_" >> \o id
            /\ ret[1].nope = << "n", "o", "p", "e", "_" >> \o id

\* a name of four characters with two separators in a row between a letter
\* and another
C19_Witness ==
    /\ ret # << >>
    /\ Len(ret[1].name) = 4
    /\ ret[1].name[2] = "-" /\ ret[1].name[3] = " "
    /\ ret[1].id = << "a", "_", "Z" >>

====
